---- MODULE Spec2Model ----
(***************************************************************************)
(* Message relay of PWA_Next.                                              *)
(*                                                                         *)
(* Hub: the WebSocket server (websocket-server.js, and the identical code  *)
(* of the Next API route pages/api/websocket.ts): the connection registry, *)
(* the broadcast loop, the bounded history array and the per-connection    *)
(* event handlers.  Node runs every handler to completion, so one handler  *)
(* with its whole fan-out is one action.                                   *)
(*                                                                         *)
(* Client: the WebSocketClient class (src/lib/websocket.ts): the socket    *)
(* reference, the reconnect timer and the attempt counter.                 *)
(***************************************************************************)
EXTENDS Integers, Sequences, FiniteSets, TLC

\* ---------------------------------------------------------------- constants
MAX_MESSAGES == 100
RECENT_ON_CONNECT == 10
OPEN == 1
CLOSING == 2
CLOSED == 3
maxReconnectAttempts == 5
reconnectInterval == 3000

\* ------------------------------------------------------------------- bounds
MaxConns == 3
MaxMsgs == 1
MaxClock == 1
MaxAppends == 102
MaxLive == 2
MaxHookAttempts == 6
MaxSends == 2
MaxRelayed == 2
MaxEnvelopes == 2
MaxRecent == 12
MaxViewed == 102
MaxFanned == 2
MaxRequests == 3

Contents == {"hello", " "}

\* --------------------------------------------------------------------- state
VARIABLES
    connections,   \* the Map's keys in insertion order (each key owns its socket)
    sock,          \* accepted sockets: readyState, listeners attached, error seen
    messages,      \* the history array
    clock,         \* the hub's wall clock (new Date())
    hubUp,         \* the hub process is running
    last,          \* record of the handler that ran last (its sends, in order)
    accepted,      \* every chat message ever pushed to the history, in order
    scenario,      \* the two-client scenario: its stage and what A and B were sent
    relayed,       \* per connection, the chat envelopes sent to it, in order
    told,          \* per connection, the user count it was sent last
    first,         \* per connection, the type of the first envelope sent to it
    stopping,      \* the SIGINT handler has run
    env,           \* limits of the environment for this run
    client,        \* the WebSocketClient: ws, reconnectTimer, reconnectAttempts
    clast,         \* the client operation that ran last, and the state connect() saw
    backoff,       \* the run of failed attempts since construction, while unbroken
    disconnected,  \* disconnect() has returned and connect() was not called since
    wire,          \* the send() calls so far: which were transmitted, which refused
    hook,          \* one mounted useWebSocket: its refs and its connection state
    hlast,         \* the hook step that ran last, and the state it started from
    hbackoff,      \* the hook's run of failed attempts since mount, while unbroken
    hview,         \* what the hook shows: userCount and messages
    hvlast,        \* the envelope the hook's onmessage handled last
    sw,            \* the service worker: websocket, connected, connecting, timer
    swlast,        \* the service-worker step that ran last
    route,         \* the API route's module: wss, servers created, requests
    rlast          \* the request the API route answered last, and its response

hubVars == <<connections, sock, messages, clock, hubUp, last,
             accepted, scenario, relayed, told, first, stopping, env>>

clientVars == <<client, clast, backoff, disconnected, wire>>

hookVars == <<hook, hlast, hbackoff>>

viewVars == <<hview, hvlast>>

workerVars == <<sw, swlast>>

routeVars == <<route, rlast>>

vars == <<hubVars, clientVars, hookVars, viewVars, workerVars, routeVars>>

\* ------------------------------------------------------------------ helpers
NoId == 0

\* a frame field the client did not supply
NoTime == -1

\* the clientId and the timestamp a client writes into its own frame
SuppliedId == 99
SuppliedTime == 99

Range(s) == {s[i] : i \in 1..Len(s)}

\* Array.prototype.slice(0, k)
SliceFirst(s, k) ==
    IF Len(s) <= k THEN s ELSE SubSeq(s, 1, k)

\* Array.prototype.slice(-k)
SliceLast(s, k) ==
    IF Len(s) <= k THEN s ELSE SubSeq(s, Len(s) - k + 1, Len(s))

\* a removal by position, splice(indexOf(key), 1): for an absent key the
\* position is -1 and the last entry goes
MapDeleteSplice(reg, id) ==
    IF id \in Range(reg) THEN SelectSeq(reg, LAMBDA k : k # id)
    ELSE SubSeq(reg, 1, Len(reg) - 1)

\* Map.prototype.delete(key): a no-op when the key is absent
MapDelete(reg, id) == SelectSeq(reg, LAMBDA k : k # id)

\* Map.prototype.set(key, value) for a key: a fresh key goes last
MapSet(reg, id) == IF id \in Range(reg) THEN reg ELSE Append(reg, id)

\* a history that evicts the newest entry instead of the oldest
PushHistoryPop(msgs, m) ==
    LET pushed == Append(msgs, m)
    IN  IF Len(pushed) > MAX_MESSAGES
        THEN SubSeq(pushed, 1, Len(pushed) - 1) ELSE pushed

\* a history that takes new entries at the front (unshift) and evicts at the
\* back
PushHistoryFront(msgs, m) ==
    LET pushed == <<m>> \o msgs
    IN  IF Len(pushed) > MAX_MESSAGES
        THEN SubSeq(pushed, 1, Len(pushed) - 1) ELSE pushed

\* messages.push(messageData); if (messages.length > MAX_MESSAGES) messages.shift()
PushHistory(msgs, m) ==
    LET pushed == Append(msgs, m)
    IN  IF Len(pushed) > MAX_MESSAGES THEN Tail(pushed) ELSE pushed

\* JavaScript truthiness of message.content: absent and '' are falsy
Truthy(frame) == frame.hasContent /\ frame.content # ""

\* a loop guard that forgets the excluded identity
ShouldSendAll(clientId, excludeClientId, readyState) == readyState = OPEN

\* the condition that guards ws.send in the broadcast loop
ShouldSend(clientId, excludeClientId, readyState) ==
    clientId # excludeClientId /\ readyState = OPEN

\* a catch branch that only logs
OnSendErrorKeep(reg, clientId) == reg

\* the catch branch of the broadcast loop: connections.delete(clientId)
OnSendError(reg, clientId) == MapDelete(reg, clientId)

\* One ws.send of the broadcast loop and its catch branch.
\* todo: the Map entries the for-of loop has yet to visit; reg: the Map now.
RECURSIVE BroadcastLoop(_, _, _, _, _, _, _)
BroadcastLoop(todo, reg, data, excludeClientId, rs, throws, sends) ==
    IF todo = <<>>
    THEN [connections |-> reg, sends |-> sends]
    ELSE LET clientId == Head(todo)
         IN  IF ShouldSend(clientId, excludeClientId, rs[clientId])
             THEN IF clientId \in throws
                  THEN BroadcastLoop(Tail(todo), OnSendError(reg, clientId), data,
                           excludeClientId, rs, throws,
                           Append(sends, [to |-> clientId, data |-> data,
                                          size |-> Len(reg), ok |-> FALSE]))
                  ELSE BroadcastLoop(Tail(todo), reg, data,
                           excludeClientId, rs, throws,
                           Append(sends, [to |-> clientId, data |-> data,
                                          size |-> Len(reg), ok |-> TRUE]))
             ELSE BroadcastLoop(Tail(todo), reg, data, excludeClientId, rs,
                                throws, sends)

\* broadcast(data, excludeClientId); throws: the entries whose ws.send throws
Broadcast(reg, data, excludeClientId, rs, throws) ==
    BroadcastLoop(reg, reg, data, excludeClientId, rs, throws, <<>>)

ReadyStates == [id \in DOMAIN sock |-> sock[id].readyState]

\* the registry entries a broadcast excluding `clientId` would send to now:
\* the sends whose outcome (returns or throws) the transport decides
Sendable(clientId) ==
    {id \in Range(connections) :
        ShouldSend(id, clientId, sock[id].readyState)}

\* the envelopes among `sends` that ws.send put on the wire for `id`, in order
DataTo(id, sends) ==
    LET mine == SelectSeq(sends, LAMBDA s : s.to = id /\ s.ok)
    IN  [i \in 1..Len(mine) |-> mine[i].data]

\* a transport on which, for an even connection, a send overtakes what was
\* sent before it
DeliverOutOfTurn(received, id, sends) ==
    IF id % 2 = 0 THEN DataTo(id, sends) \o received
    ELSE received \o DataTo(id, sends)

\* what a connection has been sent after the calls `sends`: ws.send queues
\* each envelope behind the ones sent to that socket before
Deliver(received, id, sends) == received \o DataTo(id, sends)

\* an identity derived from the registry's size
SizeBasedId(socks, reg) == Len(reg) + 1

\* randomUUID() (uuidv4() in the API route): a value no earlier call returned;
\* identities are numbered in the order the connections were accepted
RandomUUID(socks, reg) == Len(socks) + 1

\* the count an envelope announces: userCount of connected, count of userCount
CountIn(data) ==
    IF data.type = "connected" THEN data.userCount ELSE data.count

\* the count each connection was sent last, after `sends` went out
Tell(t, sends) ==
    [id \in DOMAIN t |->
        LET mine == DataTo(id, sends)
        IN  IF mine = <<>> THEN t[id] ELSE CountIn(mine[Len(mine)])]

\* the type of the first envelope ws.send was called with for each
\* connection, after the calls `sends` were made in that order
First(f, sends) ==
    [id \in DOMAIN f |->
        LET mine == SelectSeq(sends, LAMBDA s : s.to = id)
        IN  IF f[id] # "none" \/ mine = <<>> THEN f[id]
            ELSE mine[1].data.type]

\* a count read before the newcomer is registered
CountOnConnectStale(reg) == Len(reg) - 1

\* the count a connect announces: connections.size after connections.set
CountOnConnect(reg) == Len(reg)

\* a count read before the delete
CountOnLeaveStale(reg) == Len(reg) + 1

\* the count a close or an error announces: connections.size after the delete
CountOnLeave(reg) == Len(reg)

\* a welcome built with the type of another envelope
WelcomeDataMistyped(clientId, userCount, msgs) ==
    [type |-> "userCount", clientId |-> clientId, userCount |-> userCount,
     count |-> userCount,
     recentMessages |-> SliceLast(msgs, RECENT_ON_CONNECT)]

WelcomeData(clientId, userCount, msgs) ==
    [type |-> "connected", clientId |-> clientId, userCount |-> userCount,
     recentMessages |-> SliceLast(msgs, RECENT_ON_CONNECT)]

UserCountData(count) == [type |-> "userCount", count |-> count]

MessageData(frame, clientId, now) ==
    [type |-> "message", content |-> frame.content, clientId |-> clientId,
     timestamp |-> now]

\* the legacy static server of part_006 relays the parsed frame itself
RawMessage(frame) ==
    [type |-> frame.type, content |-> frame.content,
     clientId |-> frame.clientId, timestamp |-> frame.timestamp]

\* the envelope handed to broadcast for a chat message
RelayData(legacy, frame, messageData) ==
    IF legacy THEN RawMessage(frame) ELSE messageData

\* if (type === 'message' && content); the legacy server: if (type === 'message')
IsChat(legacy, frame) ==
    frame.ok /\ frame.type = "message" /\ (legacy \/ Truthy(frame))

\* a branch that tests for the wrong type string
IsPingTypo(legacy, frame) ==
    frame.ok /\ ~IsChat(legacy, frame) /\ frame.type = "pong"

\* else if (message.type === 'ping')
IsPing(legacy, frame) ==
    frame.ok /\ ~IsChat(legacy, frame) /\ frame.type = "ping"

PongData == [type |-> "pong"]

\* `last`: the handler that ran last.  op and id: the event and its socket;
\* pre and post: the registry before and after; direct: the sends made outside
\* broadcast; thrown: the handler ended in an uncaught exception; broadcast:
\* whether broadcast was called, data and exclude: its arguments, reg: the
\* registry when it was called, sends: its ws.send calls in order
\* frame: the inbound frame, for the message handler
NoFrame == [ok |-> FALSE, type |-> "none", hasContent |-> FALSE,
            content |-> "", clientId |-> NoId, timestamp |-> NoTime]

Idle == [op |-> "none", id |-> NoId, thrown |-> FALSE, direct |-> <<>>,
         broadcast |-> FALSE, data |-> [type |-> "none"], reg |-> <<>>,
         exclude |-> NoId, sends |-> <<>>, pre |-> <<>>, post |-> <<>>,
         frame |-> NoFrame]

\* the inbound frames: unparsable data, or a JSON object with a type, an
\* optional content and, when the client forges them, a clientId and a
\* timestamp of its own; env.contents: the contents of the frames that have
\* one, env.types: the types of the frames that have none
Frames ==
    {NoFrame}
    \cup {[ok |-> TRUE, type |-> "message", hasContent |-> TRUE, content |-> c,
           clientId |-> IF f THEN SuppliedId ELSE NoId,
           timestamp |-> IF f THEN SuppliedTime ELSE NoTime] :
              c \in env.contents, f \in env.forged}
    \cup {[ok |-> TRUE, type |-> t, hasContent |-> FALSE, content |-> "",
           clientId |-> NoId, timestamp |-> NoTime] :
              t \in env.types}

\* the clock readings new Date() can return now
Nows == {t \in clock..clock + 1 : t <= env.clock}

\* the scenario monitor: on an empty hub A = 1 connects, B = 2 connects, B sends
\* "hello", B closes, every socket open and every send succeeding; it records
\* what A and B were sent and B's connect time; anything else leaves the scenario
Off == [stage |-> "off", a |-> <<>>, b |-> <<>>, bAt |-> 0]

ScenarioNext(op, id, content, clean, sends, now) ==
    LET stage ==
            CASE scenario.stage = "empty" /\ op = "accept" /\ id = 1 -> "A"
              [] scenario.stage = "A" /\ op = "accept" /\ id = 2 -> "AB"
              [] scenario.stage = "AB" /\ op = "message" /\ id = 2
                    /\ content = "hello" -> "ABm"
              [] scenario.stage = "ABm" /\ op = "close" /\ id = 2 -> "ABmx"
              [] OTHER -> "off"
    IN  IF ~clean \/ stage = "off"
        THEN Off
        ELSE [stage |-> stage,
              a |-> scenario.a \o DataTo(1, sends),
              b |-> scenario.b \o DataTo(2, sends),
              bAt |-> IF stage = "AB" THEN now ELSE scenario.bAt]


\* ------------------------------------------------------ WebSocketClient
\* client.ws: "null", or the readyState of the socket this.ws refers to.
\* client.orphans: the sockets this.ws no longer refers to that have not closed
\* yet, counted by readyState; their listeners are still attached.
\* client.reconnectTimer: handle: this.reconnectTimer is not null; pending: the
\* timeout it names has neither fired nor been cleared; delay: its delay in ms.
LiveStates == {"CONNECTING", "OPEN", "CLOSING"}

NoTimer == [handle |-> FALSE, pending |-> FALSE, delay |-> 0]

NoOrphans == [st \in LiveStates |-> 0]

NewClient(url) ==
    [ws |-> "null", orphans |-> NoOrphans, reconnectTimer |-> NoTimer,
     reconnectAttempts |-> 0, notified |-> "never", url |-> url]

LiveCount(c) ==
    (IF c.ws \in LiveStates THEN 1 ELSE 0)
    + c.orphans["CONNECTING"] + c.orphans["OPEN"] + c.orphans["CLOSING"]

NumConnecting(c) ==
    (IF c.ws = "CONNECTING" THEN 1 ELSE 0) + c.orphans["CONNECTING"]

\* the sockets of this client that are connecting or open: the one this.ws
\* names and the ones it no longer names
NumConnectingOrOpen(c) ==
    (IF c.ws \in {"CONNECTING", "OPEN"} THEN 1 ELSE 0)
    + c.orphans["CONNECTING"] + c.orphans["OPEN"]

\* the timeouts of scheduleReconnect that have neither fired nor been cleared:
\* every setTimeout is stored in this.reconnectTimer after the stored one was
\* cleared
PendingTimers(c) == IF c.reconnectTimer.pending THEN 1 ELSE 0

\* a socket the client drops its reference to stays alive until it closes
Orphan(orphans, st) ==
    IF st \in LiveStates THEN [orphans EXCEPT ![st] = @ + 1] ELSE orphans

\* WebSocket.close(): a connecting or open socket starts closing
WsClose(st) == IF st \in {"CONNECTING", "OPEN"} THEN "CLOSING" ELSE st

\* a delay that grows linearly
ReconnectDelayLinear(attempts) == reconnectInterval * (attempts + 1)

\* this.reconnectInterval * Math.pow(2, this.reconnectAttempts)
ReconnectDelay(attempts) == reconnectInterval * 2 ^ attempts

\* a limit that lets one attempt too many through
AttemptsExhaustedLate(attempts) == attempts > maxReconnectAttempts

\* if (this.reconnectAttempts >= this.maxReconnectAttempts) return
AttemptsExhausted(attempts) == attempts >= maxReconnectAttempts

\* scheduleReconnect(): clearTimeout of the old timer, then setTimeout
ScheduleReconnect(c) ==
    IF AttemptsExhausted(c.reconnectAttempts)
    THEN c
    ELSE [c EXCEPT !.reconnectTimer =
                [handle |-> TRUE, pending |-> TRUE,
                 delay |-> ReconnectDelay(c.reconnectAttempts)]]

\* if (this.ws?.readyState === WebSocket.OPEN) return
AlreadyConnected(c) == c.ws = "OPEN"

\* connect(): new WebSocket(url) throws for a url it cannot parse
Connect(c) ==
    IF AlreadyConnected(c)
    THEN c
    ELSE IF c.url = "valid"
         THEN [c EXCEPT !.ws = "CONNECTING",
                        !.orphans = Orphan(c.orphans, c.ws)]
         ELSE ScheduleReconnect(c)

\* disconnect()
Disconnect(c) ==
    [c EXCEPT !.reconnectTimer = NoTimer,
              !.ws = "null",
              !.orphans = IF c.ws = "null" THEN @
                          ELSE Orphan(@, WsClose(c.ws))]

\* ws.onopen
WsOnOpen(c) == [c EXCEPT !.reconnectAttempts = 0, !.notified = "up"]

\* ws.onclose
WsOnClose(c) == ScheduleReconnect([c EXCEPT !.notified = "down"])

\* ws.onerror
WsOnError(c) == [c EXCEPT !.notified = "down"]

\* the setTimeout callback of scheduleReconnect
TimerCallback(c) ==
    Connect([c EXCEPT !.reconnectAttempts = @ + 1,
                      !.reconnectTimer.pending = FALSE])

\* a guard that only checks that there is a socket
CanSendAnySocket(c) == c.ws # "null"

\* send(): if (this.ws?.readyState !== WebSocket.OPEN) return false
CanSend(c) == c.ws = "OPEN"

\* WebSocket.send on a socket in state st: it throws while CONNECTING, puts
\* the data on the wire while OPEN (unless it throws), and silently discards
\* the data while CLOSING or CLOSED
WsSend(st, throws) ==
    [thrown |-> st = "CONNECTING" \/ (st = "OPEN" /\ throws),
     transmitted |-> st = "OPEN" /\ ~throws]

\* send(message): the value it returns and whether the message went out
Send(c, throws) ==
    IF ~CanSend(c)
    THEN [ret |-> FALSE, transmitted |-> FALSE]
    ELSE LET r == WsSend(c.ws, throws)
         IN  [ret |-> ~r.thrown, transmitted |-> r.transmitted]

NoWire == [calls |-> 0, sent |-> {}, refused |-> {}, ret |-> FALSE]

\* the run of failures: one more failed attempt, and the delay it scheduled
Broken == [pure |-> FALSE, started |-> FALSE, failures |-> 0, delays |-> <<>>]

Failed(b, c) ==
    IF ~b.pure THEN b
    ELSE [b EXCEPT !.failures = @ + 1,
                   !.delays = IF c.reconnectTimer.pending
                              THEN Append(@, c.reconnectTimer.delay) ELSE @]

\* ---------------------------------------------------------- useWebSocket
\* hook.ws: "null", or the readyState of the socket wsRef.current refers to.
\* hook.orphans: the sockets wsRef.current no longer refers to that have not
\* closed yet; their handlers are still attached.
\* hook.timer: reconnectTimerRef (never reset to null once set).
\* hook.connecting, hook.connected: the latest value of each React state.
\* hook.mounted: the effect has run; hook.effConnecting: the value of
\* `connecting` in the render whose effect ran last (connect changes identity,
\* and the effect runs again, when `connecting` differs from it).
NewHook(url) ==
    [ws |-> "null", orphans |-> NoOrphans, timer |-> NoTimer, attempts |-> 0,
     connecting |-> FALSE, connected |-> FALSE, mounted |-> FALSE,
     effConnecting |-> FALSE, url |-> url]

HookLiveCount(h) ==
    (IF h.ws \in LiveStates THEN 1 ELSE 0)
    + h.orphans["CONNECTING"] + h.orphans["OPEN"] + h.orphans["CLOSING"]

\* reconnectInterval * Math.pow(2, reconnectAttemptsRef.current - 1)
HookReconnectDelay(attempts) ==
    IF attempts >= 1 THEN reconnectInterval * 2 ^ (attempts - 1)
    ELSE reconnectInterval \div 2

\* reconnectAttemptsRef.current = 0
HookResetAttempts(attempts) == 0

\* scheduleReconnect of the hook
HookScheduleReconnect(h) ==
    IF h.attempts >= maxReconnectAttempts
    THEN h
    ELSE [h EXCEPT !.timer = [handle |-> TRUE, pending |-> TRUE,
                              delay |-> HookReconnectDelay(h.attempts)]]

\* whether connect(), in a render where `connecting` was cap, goes on to
\* create a socket
HookConnects(h, cap) == h.ws # "OPEN" /\ ~cap

\* connect() of the render in which `connecting` was cap
HookConnect(h, cap) ==
    IF ~HookConnects(h, cap)
    THEN h
    ELSE LET h1 == [h EXCEPT !.attempts = @ + 1]
         IN  IF h.url = "valid"
             THEN [h1 EXCEPT !.connecting = TRUE,
                             !.ws = "CONNECTING",
                             !.orphans = Orphan(h.orphans, h.ws)]
             ELSE HookScheduleReconnect([h1 EXCEPT !.connecting = FALSE])

\* the effect's cleanup: the ref keeps naming the socket it closes
HookCleanup(h) ==
    [h EXCEPT !.timer.pending = FALSE, !.ws = WsClose(h.ws)]

\* wsRef.current.onopen
HookOnOpen(h) ==
    [h EXCEPT !.connected = TRUE, !.connecting = FALSE,
              !.attempts = HookResetAttempts(h.attempts)]

\* wsRef.current.onclose
HookOnClose(h) ==
    HookScheduleReconnect([h EXCEPT !.connected = FALSE,
                                    !.connecting = FALSE])

\* wsRef.current.onerror
HookOnError(h) == [h EXCEPT !.connected = FALSE, !.connecting = FALSE]

\* the hook's run of failures: one more failed attempt, and the delay that
\* scheduleReconnect gave the timer it set for it
HookFailed(b, h) ==
    IF ~b.pure THEN b
    ELSE [b EXCEPT !.failures = @ + 1,
                   !.delays = IF h.timer.pending
                              THEN Append(@, h.timer.delay) ELSE @]

\* ------------------------------------------------ useWebSocket: onmessage
\* hview.userCount, hview.messages: the two React states onmessage sets;
\* hview.handled: how many envelopes onmessage has been called with
NewView == [userCount |-> 0, messages |-> <<>>, handled |-> 0]

\* a count field the envelope does not have
NoCount == -1

\* an envelope as onmessage gets it: ok is whether JSON.parse accepts the
\* data; a field the sender left out has NoCount, NoId, NoTime, "" or
\* hasRecent = FALSE
NoEnvelope == [ok |-> FALSE, type |-> "none", userCount |-> NoCount,
               count |-> NoCount, hasRecent |-> FALSE, recentMessages |-> <<>>,
               content |-> "", clientId |-> NoId, timestamp |-> NoTime]

\* a history entry as the hub sends it
Relayed(content, clientId, timestamp) ==
    [type |-> "message", content |-> content, clientId |-> clientId,
     timestamp |-> timestamp]

\* the envelopes a server can send the hook: unparsable data; the three types
\* it handles, with and without their fields; types it has no case for
\* (pong, status), bare or carrying every field another type would have
Envelopes ==
    {NoEnvelope}
    \cup {[NoEnvelope EXCEPT !.ok = TRUE, !.type = "connected",
                             !.userCount = c, !.hasRecent = r[1],
                             !.recentMessages = r[2]] :
              c \in {NoCount, 1},
              r \in {<<FALSE, <<>>>>, <<TRUE, <<>>>>,
                     <<TRUE, <<Relayed("hello", 1, 0)>>>>}}
    \cup {[NoEnvelope EXCEPT !.ok = TRUE, !.type = "userCount", !.count = c] :
              c \in {NoCount, 0, 2}}
    \cup {[NoEnvelope EXCEPT !.ok = TRUE, !.type = "message", !.content = c,
                             !.clientId = 2, !.timestamp = t] :
              c \in {"hello", ""}, t \in {1, NoTime}}
    \cup {[NoEnvelope EXCEPT !.ok = TRUE, !.type = "pong"]}
    \cup {[NoEnvelope EXCEPT !.ok = TRUE, !.type = t, !.userCount = 2,
                             !.count = 2, !.hasRecent = TRUE,
                             !.recentMessages = <<Relayed("hello", 1, 0)>>,
                             !.content = "hello", !.clientId = 2,
                             !.timestamp = 1] : t \in {"status", "none"}}

\* the envelopes the hub sends a client: its welcome, with no recent
\* messages or with two of them, the older first (messages.slice(-10) of a
\* history filled at clock readings 0 and 1); a userCount; and a chat
\* message relayed at clock reading 1
HubEnvelopes ==
    {[NoEnvelope EXCEPT !.ok = TRUE, !.type = "connected", !.userCount = 1,
                        !.hasRecent = TRUE, !.recentMessages = r] :
        r \in {<<>>, <<Relayed("hello", 1, 0), Relayed("hello", 1, 1)>>}}
    \cup {[NoEnvelope EXCEPT !.ok = TRUE, !.type = "userCount", !.count = 2]}
    \cup {[NoEnvelope EXCEPT !.ok = TRUE, !.type = "message",
                             !.content = "hello", !.clientId = 2,
                             !.timestamp = 1]}

\* [newMessage, ...prev].slice(0, 100)
Prepend(newMessage, prev) ==
    LET all == <<newMessage>> \o prev
    IN  IF Len(all) <= MAX_MESSAGES THEN all ELSE SubSeq(all, 1, MAX_MESSAGES)

\* a switch whose cases fall through to the one for 'message'
HookHandlesAnyType(type) == TRUE

\* switch (message.type): the cases it has
HookHandles(type) == type \in {"connected", "userCount", "message"}

\* wsRef.current.onmessage: the states after it has handled envelope e
HookOnMessage(v, e) ==
    LET w == [v EXCEPT !.handled = @ + 1]
    IN  IF ~e.ok \/ ~HookHandles(e.type)
        THEN w
        ELSE CASE e.type = "connected" ->
                    [w EXCEPT !.userCount = IF e.userCount # NoCount
                                            THEN e.userCount ELSE @,
                              !.messages = IF e.hasRecent
                                           THEN e.recentMessages ELSE @]
               [] e.type = "userCount" ->
                    [w EXCEPT !.userCount = IF e.count # NoCount
                                            THEN e.count ELSE @]
               [] OTHER ->
                    IF e.content # "" /\ e.clientId # NoId
                           /\ e.timestamp # NoTime
                    THEN [w EXCEPT !.messages =
                             Prepend(Relayed(e.content, e.clientId,
                                             e.timestamp), @)]
                    ELSE w

\* ---------------------------------------------------------- service worker
\* sw.websocket: "null", or the readyState of the socket `websocket` refers
\* to; sw.orphans: the sockets it no longer refers to that have not closed
\* yet (their handlers are still attached); sw.reconnectTimer: a timeout is
\* pending; sw.posted, sw.sent: the chat messages tabs have posted so far, and
\* how many of them went out on the socket
NewWorker == [websocket |-> "null", orphans |-> NoOrphans,
              connected |-> FALSE, connecting |-> FALSE,
              reconnectTimer |-> FALSE, posted |-> 0, sent |-> 0]

SwLiveCount(w) ==
    (IF w.websocket \in LiveStates THEN 1 ELSE 0)
    + w.orphans["CONNECTING"] + w.orphans["OPEN"] + w.orphans["CLOSING"]

\* the sockets of the worker that are connecting or open
SwNumConnectingOrOpen(w) ==
    (IF w.websocket \in {"CONNECTING", "OPEN"} THEN 1 ELSE 0)
    + w.orphans["CONNECTING"] + w.orphans["OPEN"]

\* a guard that looks at `connected` only
SwBusyConnectedOnly(w) == w.connected

\* connect(): if (connected || connecting) return
SwBusy(w) == w.connected \/ w.connecting

\* connect()
SwConnect(w) ==
    IF SwBusy(w)
    THEN w
    ELSE [w EXCEPT !.connecting = TRUE,
                   !.websocket = "CONNECTING",
                   !.orphans = Orphan(w.orphans, w.websocket)]

\* websocket.onopen
SwOnOpen(w) == [w EXCEPT !.connected = TRUE, !.connecting = FALSE]

\* websocket.onclose
SwOnClose(w) == [w EXCEPT !.connected = FALSE, !.reconnectTimer = TRUE]

\* messageHandlers.offline
SwOffline(w) ==
    IF w.connected THEN [w EXCEPT !.websocket = WsClose(w.websocket)] ELSE w

\* send(packet): if (!connected) return false; websocket.send(...)
SwSend(w, throws) ==
    IF ~w.connected
    THEN [ret |-> FALSE, transmitted |-> FALSE]
    ELSE LET r == WsSend(w.websocket, throws)
         IN  [ret |-> ~r.thrown, transmitted |-> r.transmitted]

\* the worker once its script has been evaluated: it ends with connect()
LoadedWorker == SwConnect(NewWorker)

\* ---------------------------------------------------------------------- Init
\* the registry and broadcast runs: up to MaxConns connections, one chat
\* message, pings and unparsable frames, a clock that stands still
MainEnv == [conns |-> MaxConns, msgs |-> 1, clock |-> 0,
            contents |-> {"hello"}, types |-> {"ping"}, legacy |-> FALSE,
            forged |-> {FALSE}, record |-> FALSE, envelopes |-> 0, sent |-> {}]

\* the two-client runs: two connections, up to MaxMsgs chat messages with
\* any of Contents or an empty content, frames of every type, forged fields,
\* a clock that advances up to MaxClock
ScenarioEnv == [conns |-> 2, msgs |-> MaxMsgs, clock |-> MaxClock,
                contents |-> Contents \cup {""},
                types |-> {"message", "ping", "status"}, legacy |-> FALSE,
                forged |-> BOOLEAN, record |-> FALSE, envelopes |-> 0, sent |-> {}]

\* the same runs against the legacy static server of part_006
LegacyEnv == [ScenarioEnv EXCEPT !.legacy = TRUE]

\* the history runs: one connection appends up to MaxAppends chat messages
HistoryEnv == [conns |-> 1, msgs |-> MaxAppends, clock |-> 1,
               contents |-> {"hello"}, types |-> {"ping"}, legacy |-> FALSE,
               forged |-> {FALSE}, record |-> FALSE, envelopes |-> 0, sent |-> {}]

\* the welcome runs: a hub whose history holds up to MaxRecent chat messages
\* of a connection that has closed; another connects and may add to them
RecentEnv == [conns |-> 2, msgs |-> MaxRecent, clock |-> 1,
              contents |-> {"hello"}, types |-> {"ping"}, legacy |-> FALSE,
              forged |-> {FALSE}, record |-> FALSE, envelopes |-> 0, sent |-> {}]

\* the shutdown runs: two connections, one chat message, then an interrupt
ShutdownEnv == [conns |-> 2, msgs |-> 1, clock |-> 0,
                contents |-> {"hello"}, types |-> {"ping"}, legacy |-> FALSE,
                forged |-> {FALSE}, record |-> FALSE, envelopes |-> 0, sent |-> {}]

\* the runs with frames and envelopes of every type: two connections, one
\* chat message, and a hook that is sent up to MaxEnvelopes envelopes
UnhandledEnv == [conns |-> 2, msgs |-> 1, clock |-> 0,
                 contents |-> {"hello"},
                 types |-> {"message", "ping", "status"}, legacy |-> FALSE,
                 forged |-> {FALSE}, record |-> FALSE,
                 envelopes |-> MaxEnvelopes, sent |-> Envelopes]

\* the message-list runs: a hook that is sent up to MaxViewed of the
\* envelopes a hub sends
ViewEnv == [conns |-> 0, msgs |-> 0, clock |-> 0,
            contents |-> {}, types |-> {}, legacy |-> FALSE,
            forged |-> {FALSE}, record |-> FALSE,
            envelopes |-> MaxViewed, sent |-> HubEnvelopes]

\* the fan-out runs: four connections in all, MaxFanned chat messages, from
\* any of them, at one clock reading; what each connection is sent is recorded
FanoutEnv == [conns |-> 4, msgs |-> MaxFanned, clock |-> 0,
              contents |-> {"hello"}, types |-> {}, legacy |-> FALSE,
              forged |-> {FALSE}, record |-> TRUE, envelopes |-> 0,
              sent |-> {}]

\* the relay-order runs: two connections, up to MaxRelayed chat messages, a
\* clock that advances; what each connection is sent is recorded
OrderEnv == [conns |-> 2, msgs |-> MaxRelayed, clock |-> 1,
             contents |-> {"hello"}, types |-> {"ping"}, legacy |-> FALSE,
             forged |-> {FALSE}, record |-> TRUE, envelopes |-> 0, sent |-> {}]

\* ------------------------------------------------ the API route's handler
\* route.wss: the module's `wss`: "null", or the state of the server it names:
\* "binding" until the port is bound, then "listening", or "failed";
\* route.created: the calls of new WebSocketServer so far;
\* route.requests: the requests handled so far
NewRoute == [wss |-> "null", created |-> 0, requests |-> 0]

\* rlast: method and status of the request answered last, the connections
\* figure of its body, and whether the handler created a server
NoRequest == [method |-> "none", status |-> 0, connections |-> NoCount,
              creates |-> FALSE]

Methods == {"GET", "POST", "HEAD"}

\* the route's hub: two connections, one chat message
RouteEnv == [conns |-> 2, msgs |-> 1, clock |-> 0,
             contents |-> {"hello"}, types |-> {}, legacy |-> FALSE,
             forged |-> {FALSE}, record |-> FALSE, envelopes |-> 0,
             sent |-> {}]

\* if (req.method !== 'GET')
MethodNotAllowed(method) == method # "GET"

\* a handler that makes a server for every request
MissingServerAlways(wss) == TRUE

\* if (!wss)
MissingServer(wss) == wss = "null"

\* connections: connections.size
ReportedConnections(reg) == Len(reg)

\* handler(req, res)
Handler(r, method, reg) ==
    IF MethodNotAllowed(method)
    THEN [route |-> [r EXCEPT !.requests = @ + 1],
          res |-> [NoRequest EXCEPT !.method = method, !.status = 405]]
    ELSE LET creates == MissingServer(r.wss)
         IN  [route |-> [r EXCEPT !.requests = @ + 1,
                                  !.wss = IF creates THEN "binding" ELSE @,
                                  !.created = IF creates THEN @ + 1 ELSE @],
              res |-> [method |-> method, status |-> 200,
                       connections |-> ReportedConnections(reg),
                       creates |-> creates]]

InitWith(e) ==
    /\ connections = <<>>
    /\ sock = <<>>
    /\ messages = <<>>
    /\ clock = 0
    /\ hubUp = TRUE
    /\ last = Idle
    /\ accepted = <<>>
    /\ scenario = [Off EXCEPT !.stage = "empty"]
    /\ relayed = IF e.record THEN [id \in 1..e.conns |-> <<>>] ELSE <<>>
    /\ told = IF e.record THEN [id \in 1..e.conns |-> 0] ELSE <<>>
    /\ first = IF e.record THEN [id \in 1..e.conns |-> "none"] ELSE <<>>
    /\ stopping = FALSE
    /\ env = e
    /\ clast = [op |-> "none", called |-> FALSE, at |-> NewClient("valid")]
    /\ backoff = [Broken EXCEPT !.pure = TRUE]
    /\ disconnected = FALSE
    /\ wire = NoWire
    /\ hlast = [op |-> "none", at |-> NewHook("valid")]
    /\ hbackoff = [Broken EXCEPT !.pure = TRUE]
    /\ hview = NewView
    /\ hvlast = NoEnvelope
    /\ sw = LoadedWorker
    /\ swlast = [op |-> "load", at |-> NewWorker]
    /\ route = NewRoute
    /\ rlast = NoRequest

Init ==
    InitWith(MainEnv) /\ client = NewClient("valid") /\ hook = NewHook("valid")

\* a WebSocketClient after construction, for a url the browser accepts or not
InitClient ==
    /\ InitWith(MainEnv)
    /\ client \in {NewClient("valid"), NewClient("invalid")}
    /\ hook = NewHook("valid")

InitScenario ==
    /\ InitWith(ScenarioEnv)
    /\ client = NewClient("valid")
    /\ hook = NewHook("valid")

InitHistory ==
    /\ InitWith(HistoryEnv)
    /\ client = NewClient("valid")
    /\ hook = NewHook("valid")

InitOrder ==
    /\ InitWith(OrderEnv)
    /\ client = NewClient("valid")
    /\ hook = NewHook("valid")

InitShutdown ==
    /\ InitWith(ShutdownEnv)
    /\ client = NewClient("valid")
    /\ hook = NewHook("valid")

InitUnhandled ==
    /\ InitWith(UnhandledEnv)
    /\ client = NewClient("valid")
    /\ hook = NewHook("valid")

\* the history after connection 1 has sent n chat messages, the first j of
\* them at clock reading 0 and the others at reading 1
Earlier(n, j) ==
    [i \in 1..n |-> MessageData([NoFrame EXCEPT !.content = "hello"], 1,
                                IF i <= j THEN 0 ELSE 1)]

\* a hub that has accepted connection 1, relayed its messages and handled
\* its close
InitRecent ==
    /\ \E n \in 0..MaxRecent : \E j \in 0..n :
           /\ messages = Earlier(n, j)
           /\ accepted = Earlier(n, j)
           /\ clock = IF j < n THEN 1 ELSE 0
    /\ connections = <<>>
    /\ sock = <<[readyState |-> CLOSED, listening |-> FALSE,
                 errored |-> FALSE]>>
    /\ hubUp = TRUE
    /\ last = Idle
    /\ scenario = Off
    /\ relayed = <<>>
    /\ told = <<>>
    /\ first = <<>>
    /\ stopping = FALSE
    /\ env = RecentEnv
    /\ clast = [op |-> "none", called |-> FALSE, at |-> NewClient("valid")]
    /\ backoff = [Broken EXCEPT !.pure = TRUE]
    /\ disconnected = FALSE
    /\ wire = NoWire
    /\ hlast = [op |-> "none", at |-> NewHook("valid")]
    /\ hbackoff = [Broken EXCEPT !.pure = TRUE]
    /\ hview = NewView
    /\ hvlast = NoEnvelope
    /\ sw = LoadedWorker
    /\ swlast = [op |-> "load", at |-> NewWorker]
    /\ route = NewRoute
    /\ rlast = NoRequest
    /\ client = NewClient("valid")
    /\ hook = NewHook("valid")

InitView ==
    /\ InitWith(ViewEnv)
    /\ client = NewClient("valid")
    /\ hook = NewHook("valid")

\* a hub where 1, 2 and 3 connected, 1 sent "hello" and then closed: 2 and 3
\* hold that message, and the close handler of 1 ran last
InitFanout ==
    LET hello == [type |-> "message", content |-> "hello", clientId |-> 1,
                  timestamp |-> 0]
        left == UserCountData(2)
    IN  /\ connections = <<2, 3>>
        /\ sock = [id \in 1..3 |->
                      IF id = 1
                      THEN [readyState |-> CLOSED, listening |-> FALSE,
                            errored |-> FALSE]
                      ELSE [readyState |-> OPEN, listening |-> TRUE,
                            errored |-> FALSE]]
        /\ messages = <<hello>>
        /\ accepted = <<hello>>
        /\ clock = 0
        /\ hubUp = TRUE
        /\ last = [Idle EXCEPT !.op = "close", !.id = 1, !.broadcast = TRUE,
                               !.data = left, !.reg = <<2, 3>>, !.exclude = 1,
                               !.sends = <<[to |-> 2, data |-> left,
                                            size |-> 2, ok |-> TRUE],
                                           [to |-> 3, data |-> left,
                                            size |-> 2, ok |-> TRUE]>>,
                               !.pre = <<1, 2, 3>>, !.post = <<2, 3>>]
        /\ scenario = Off
        /\ relayed = [id \in 1..FanoutEnv.conns |->
                         IF id \in {2, 3} THEN <<hello>> ELSE <<>>]
        /\ told = <<>>
        /\ first = <<>>
        /\ stopping = FALSE
        /\ env = FanoutEnv
        /\ clast = [op |-> "none", called |-> FALSE, at |-> NewClient("valid")]
        /\ backoff = [Broken EXCEPT !.pure = TRUE]
        /\ disconnected = FALSE
        /\ wire = NoWire
        /\ hlast = [op |-> "none", at |-> NewHook("valid")]
        /\ hbackoff = [Broken EXCEPT !.pure = TRUE]
        /\ hview = NewView
        /\ hvlast = NoEnvelope
        /\ sw = LoadedWorker
        /\ swlast = [op |-> "load", at |-> NewWorker]
        /\ route = NewRoute
        /\ rlast = NoRequest
        /\ client = NewClient("valid")
        /\ hook = NewHook("valid")

InitLegacy ==
    /\ InitWith(LegacyEnv)
    /\ client = NewClient("valid")
    /\ hook = NewHook("valid")

\* a component that is about to mount the hook, for a url the browser accepts
\* or not
InitHook ==
    /\ InitWith(MainEnv)
    /\ client = NewClient("valid")
    /\ hook \in {NewHook("valid"), NewHook("invalid")}

\* ------------------------------------------------------------------- actions
\* wss.on('connection'): the whole handler
OnConnection(now, welcomeThrows, survives, throws) ==
    LET clientId == RandomUUID(sock, connections)
        reg == MapSet(connections, clientId)
        userCount == CountOnConnect(reg)
        welcome == [to |-> clientId,
                    data |-> WelcomeData(clientId, userCount, messages),
                    size |-> Len(reg), ok |-> ~welcomeThrows]
        rs == Append(ReadyStates, OPEN)
        b == Broadcast(reg, UserCountData(userCount), clientId, rs, throws)
    IN  /\ hubUp
        /\ ~stopping
        /\ Len(sock) < env.conns
        /\ clock' = now
        /\ UNCHANGED <<messages, accepted, relayed, stopping, env>>
        /\ IF welcomeThrows
           THEN /\ throws = {}
                /\ connections' = reg
                /\ sock' = Append(sock, [readyState |-> OPEN,
                                         listening |-> FALSE,
                                         errored |-> FALSE])
                /\ hubUp' = survives
                /\ told' = told
                /\ first' = First(first, <<welcome>>)
                /\ last' = [Idle EXCEPT !.op = "accept", !.id = clientId,
                                !.thrown = TRUE, !.direct = <<welcome>>,
                                !.reg = reg, !.pre = connections,
                                !.post = reg]
                /\ scenario' = Off
           ELSE /\ survives
                /\ connections' = b.connections
                /\ sock' = Append(sock, [readyState |-> OPEN,
                                         listening |-> TRUE,
                                         errored |-> FALSE])
                /\ hubUp' = hubUp
                /\ told' = Tell(told, <<welcome>> \o b.sends)
                /\ first' = First(first, <<welcome>> \o b.sends)
                /\ last' = [Idle EXCEPT !.op = "accept", !.id = clientId,
                                !.direct = <<welcome>>, !.broadcast = TRUE,
                                !.data = UserCountData(userCount),
                                !.reg = reg, !.exclude = clientId,
                                !.sends = b.sends,
                                !.pre = connections, !.post = b.connections]
                /\ scenario' = ScenarioNext("accept", clientId, "",
                                   throws = {} /\ \A i \in DOMAIN sock :
                                       sock[i].readyState = OPEN,
                                   <<welcome>> \o b.sends, now)

Accept ==
    \E now \in Nows, welcomeThrows \in BOOLEAN :
        \E survives \in IF welcomeThrows THEN BOOLEAN ELSE {TRUE},
           throws \in IF welcomeThrows THEN {{}} ELSE SUBSET Sendable(NoId) :
            /\ OnConnection(now, welcomeThrows, survives, throws)
            /\ UNCHANGED <<clientVars, hookVars, viewVars, workerVars, routeVars>>

\* ws.on('message'): the whole handler, for one inbound frame.  The legacy
\* server has no try around it: an exception of JSON.parse or of the pong's
\* ws.send ends the handler uncaught (survives: the process outlives it)
OnMessage(clientId, frame, now, throws, pongThrows, survives) ==
    LET isChat == IsChat(env.legacy, frame)
        isPing == IsPing(env.legacy, frame)
        messageData == MessageData(frame, clientId, now)
        envelope == RelayData(env.legacy, frame, messageData)
        b == Broadcast(connections, envelope, clientId, ReadyStates, throws)
        pong == [to |-> clientId, data |-> PongData,
                 size |-> Len(connections), ok |-> ~pongThrows]
        uncaught == env.legacy /\ (~frame.ok \/ (isPing /\ pongThrows))
    IN  /\ hubUp
        /\ sock[clientId].listening
        /\ sock[clientId].readyState = OPEN
        /\ UNCHANGED <<sock, told, stopping, env>>
        /\ hubUp' = IF uncaught THEN survives ELSE hubUp
        /\ ~uncaught => survives
        /\ IF isChat
           THEN /\ Len(accepted) < env.msgs
                /\ ~pongThrows
                /\ clock' = now
                /\ messages' = PushHistory(messages, messageData)
                /\ accepted' = Append(accepted, messageData)
                /\ relayed' = [id \in DOMAIN relayed |->
                                  Deliver(relayed[id], id, b.sends)]
                /\ first' = First(first, b.sends)
                /\ connections' = b.connections
                /\ last' = [Idle EXCEPT !.op = "message", !.id = clientId,
                                !.broadcast = TRUE, !.data = envelope,
                                !.reg = connections,
                                !.exclude = clientId, !.sends = b.sends,
                                !.pre = connections, !.post = b.connections,
                                !.frame = frame]
                /\ scenario' = ScenarioNext("message", clientId, frame.content,
                                   throws = {} /\ \A i \in DOMAIN sock :
                                       sock[i].readyState = OPEN,
                                   b.sends, now)
           ELSE /\ throws = {}
                /\ now = clock
                /\ UNCHANGED <<clock, messages, accepted, relayed,
                               connections>>
                /\ scenario' = Off
                /\ first' = IF isPing THEN First(first, <<pong>>) ELSE first
                /\ IF isPing
                   THEN last' = [Idle EXCEPT !.op = "ping", !.id = clientId,
                                     !.direct = <<pong>>,
                                     !.thrown = uncaught,
                                     !.pre = connections,
                                     !.post = connections,
                                     !.frame = frame]
                   ELSE /\ ~pongThrows
                        /\ last' = [Idle EXCEPT
                                        !.op = IF frame.ok THEN "drop"
                                               ELSE "malformed",
                                        !.id = clientId,
                                        !.thrown = uncaught,
                                        !.pre = connections,
                                        !.post = connections,
                                        !.frame = frame]

Message ==
    \E clientId \in DOMAIN sock, frame \in Frames :
        LET isChat == IsChat(env.legacy, frame)
            isPing == IsPing(env.legacy, frame)
        IN  \E now \in IF isChat THEN Nows ELSE {clock},
               pongThrows \in IF isPing THEN BOOLEAN ELSE {FALSE},
               throws \in IF isChat THEN SUBSET Sendable(clientId) ELSE {{}},
               survives \in IF env.legacy THEN BOOLEAN ELSE {TRUE} :
                /\ OnMessage(clientId, frame, now, throws, pongThrows,
                             survives)
                /\ UNCHANGED <<clientVars, hookVars, viewVars, workerVars, routeVars>>

\* the body shared by ws.on('close') and ws.on('error')
Leave(op, clientId, throws) ==
    LET reg == MapDelete(connections, clientId)
        count == CountOnLeave(reg)
        rs == [ReadyStates EXCEPT ![clientId] = sock'[clientId].readyState]
        b == Broadcast(reg, UserCountData(count), clientId, rs, throws)
    IN  /\ connections' = b.connections
        /\ told' = Tell(told, b.sends)
        /\ first' = First(first, b.sends)
        /\ last' = [Idle EXCEPT !.op = op, !.id = clientId,
                        !.broadcast = TRUE, !.data = UserCountData(count),
                        !.reg = reg,
                        !.exclude = clientId, !.sends = b.sends,
                        !.pre = connections, !.post = b.connections]
        /\ scenario' = ScenarioNext(op, clientId, "",
                           throws = {} /\ \A i \in DOMAIN sock \ {clientId} :
                               sock[i].readyState = OPEN,
                           b.sends, clock)

\* ws.on('close'): the socket has closed and emits nothing after this; the
\* handler runs if it was attached
OnClose(clientId, throws) ==
    /\ hubUp
    /\ sock[clientId].readyState # CLOSED
    /\ sock' = [sock EXCEPT ![clientId] = [readyState |-> CLOSED,
                                            listening |-> FALSE,
                                            errored |-> FALSE]]
    /\ UNCHANGED <<messages, clock, hubUp, accepted, relayed, stopping,
                   env>>
    /\ IF sock[clientId].listening
       THEN Leave("close", clientId, throws)
       ELSE /\ throws = {}
            /\ UNCHANGED <<connections, told, first>>
            /\ last' = Idle
            /\ scenario' = Off

Close ==
    \E clientId \in DOMAIN sock : \E throws \in SUBSET Sendable(clientId) :
        OnClose(clientId, throws) /\ UNCHANGED <<clientVars, hookVars, viewVars, workerVars, routeVars>>

\* ws.on('error'): the transport reported an error; its close event follows
OnError(clientId, throws) ==
    /\ hubUp
    /\ sock[clientId].listening
    /\ sock[clientId].readyState # CLOSED
    /\ ~sock[clientId].errored
    /\ sock' = [sock EXCEPT ![clientId].readyState = CLOSING,
                            ![clientId].errored = TRUE]
    /\ UNCHANGED <<messages, clock, hubUp, accepted, relayed, stopping,
                   env>>
    /\ Leave("error", clientId, throws)

Error ==
    \E clientId \in DOMAIN sock : \E throws \in SUBSET Sendable(clientId) :
        OnError(clientId, throws) /\ UNCHANGED <<clientVars, hookVars, viewVars, workerVars, routeVars>>

\* the transport starts to close (the peer's close frame, a dropped link):
\* readyState leaves OPEN before the close event is emitted
SocketClosing(clientId) ==
    /\ hubUp
    /\ sock[clientId].readyState = OPEN
    /\ sock' = [sock EXCEPT ![clientId].readyState = CLOSING]
    /\ last' = Idle
    /\ scenario' = IF scenario.stage = "ABm" /\ clientId = 2
                    THEN scenario ELSE Off
    /\ UNCHANGED <<connections, messages, clock, hubUp,
                   accepted, relayed, told, first, stopping, env>>

Closing ==
    \E clientId \in DOMAIN sock :
        SocketClosing(clientId) /\ UNCHANGED <<clientVars, hookVars, viewVars, workerVars, routeVars>>

Next == Accept \/ Message \/ Close \/ Error \/ Closing

Spec == Init /\ [][Next]_vars

SpecScenario == InitScenario /\ [][Next]_vars

SpecHistory == InitHistory /\ [][Next]_vars

SpecLegacy == InitLegacy /\ [][Next]_vars

SpecOrder == InitOrder /\ [][Next]_vars

SpecRecent == InitRecent /\ [][Next]_vars

SpecFanout == InitFanout /\ [][Next]_vars

\* connection.ws.close() of a server socket: the closing handshake starts
HubWsClose(readyState) == IF readyState = OPEN THEN CLOSING ELSE readyState

\* process.on('SIGINT'): close every registered socket, clear the registry,
\* stop listening (wss.close)
OnSigint ==
    /\ hubUp
    /\ sock' = [id \in DOMAIN sock |->
                  IF id \in Range(connections)
                  THEN [sock[id] EXCEPT !.readyState = HubWsClose(@)]
                  ELSE sock[id]]
    /\ connections' = <<>>
    /\ stopping' = TRUE
    /\ last' = [Idle EXCEPT !.op = "sigint", !.pre = connections]
    /\ scenario' = Off
    /\ UNCHANGED <<messages, clock, hubUp, accepted, relayed, told, first,
                   env>>

Interrupt == OnSigint /\ UNCHANGED <<clientVars, hookVars, viewVars, workerVars, routeVars>>

\* the callback of wss.close (and of server.close): the listener has closed
\* and every connection it accepted has ended; process.exit(0)
OnServerClosed ==
    /\ hubUp
    /\ stopping
    /\ \A id \in DOMAIN sock : sock[id].readyState = CLOSED
    /\ hubUp' = FALSE
    /\ last' = [Idle EXCEPT !.op = "exit", !.pre = connections]
    /\ scenario' = Off
    /\ UNCHANGED <<connections, sock, messages, clock, accepted, relayed,
                   told, first, stopping, env>>

Exit == OnServerClosed /\ UNCHANGED <<clientVars, hookVars, viewVars, workerVars, routeVars>>

\* a socket that is closing emits its close event
CloseClosing ==
    \E clientId \in DOMAIN sock : \E throws \in SUBSET Sendable(clientId) :
        /\ sock[clientId].readyState = CLOSING
        /\ OnClose(clientId, throws)
        /\ UNCHANGED <<clientVars, hookVars, viewVars, workerVars, routeVars>>

NextShutdown == Next \/ Interrupt \/ Exit

\* a closing handshake ends (ws destroys the socket when its close timeout
\* expires), and a callback that is due is called; a peer whose socket is
\* open is under no obligation to leave
SpecShutdown ==
    /\ InitShutdown
    /\ [][NextShutdown]_vars
    /\ WF_vars(CloseClosing)
    /\ WF_vars(Exit)

\* ------------------------------------------------- API route: actions
\* a request reaches /api/websocket
RouteRequest(method) ==
    LET h == Handler(route, method, connections)
    IN  /\ hubUp
        /\ route.requests < MaxRequests
        /\ route' = h.route
        /\ rlast' = h.res
        /\ UNCHANGED <<hubVars, clientVars, hookVars, viewVars, workerVars>>

\* the server the route created has bound port 8080
RouteListening ==
    /\ hubUp
    /\ route.wss = "binding"
    /\ route' = [route EXCEPT !.wss = "listening"]
    /\ UNCHANGED <<rlast, hubVars, clientVars, hookVars, viewVars,
                   workerVars>>

\* the port is taken: the server emits 'error', which nothing listens for;
\* survives: the process outlives the uncaught exception
RouteListenError(survives) ==
    /\ hubUp
    /\ route.wss = "binding"
    /\ route' = [route EXCEPT !.wss = "failed"]
    /\ hubUp' = survives
    /\ UNCHANGED <<rlast, connections, sock, messages, clock, last, accepted,
                   scenario, relayed, told, first, stopping, env,
                   clientVars, hookVars, viewVars, workerVars>>

\* the handlers of the route's server run once it listens
RouteHub == route.wss = "listening" /\ Next

NextRoute ==
    \/ \E method \in Methods : RouteRequest(method)
    \/ RouteListening
    \/ \E survives \in BOOLEAN : RouteListenError(survives)
    \/ RouteHub

InitRoute ==
    /\ InitWith(RouteEnv)
    /\ client = NewClient("valid")
    /\ hook = NewHook("valid")

SpecRoute == InitRoute /\ [][NextRoute]_vars

\* ---------------------------------------------- WebSocketClient: actions
\* the application calls connect()
CallConnect ==
    /\ (~AlreadyConnected(client) /\ client.url = "valid")
           => LiveCount(client) < MaxLive
    /\ client' = Connect(client)
    /\ clast' = [op |-> "connect", called |-> TRUE, at |-> client]
    /\ backoff' = IF backoff.pure /\ ~backoff.started
                  THEN IF client.url = "valid"
                       THEN [backoff EXCEPT !.started = TRUE]
                       ELSE Failed([backoff EXCEPT !.started = TRUE], client')
                  ELSE Broken
    /\ disconnected' = FALSE
    /\ UNCHANGED <<hubVars, hookVars, viewVars,
                   workerVars, routeVars, wire>>

\* the application calls disconnect()
CallDisconnect ==
    /\ client' = Disconnect(client)
    /\ clast' = [op |-> "disconnect", called |-> FALSE, at |-> client]
    /\ backoff' = Broken
    /\ disconnected' = TRUE
    /\ UNCHANGED <<hubVars, hookVars, viewVars,
                   workerVars, routeVars, wire>>

\* the open event of a connecting socket: the one this.ws names, or an orphan
SocketOpen(orphan) ==
    /\ IF orphan
       THEN /\ client.orphans["CONNECTING"] > 0
            /\ client' = WsOnOpen(
                   [client EXCEPT !.orphans["CONNECTING"] = @ - 1,
                                  !.orphans["OPEN"] = @ + 1])
       ELSE /\ client.ws = "CONNECTING"
            /\ client' = WsOnOpen([client EXCEPT !.ws = "OPEN"])
    /\ clast' = [op |-> "open", called |-> FALSE, at |-> client]
    /\ backoff' = Broken
    /\ UNCHANGED <<disconnected, hubVars, hookVars, viewVars,
                   workerVars, routeVars, wire>>

\* the close event of a socket: the one this.ws names, or an orphan in state st
SocketClose(orphan, st) ==
    /\ IF orphan
       THEN /\ client.orphans[st] > 0
            /\ client' = WsOnClose([client EXCEPT !.orphans[st] = @ - 1])
       ELSE /\ client.ws = st
            /\ client' = WsOnClose([client EXCEPT !.ws = "CLOSED"])
    /\ clast' = [op |-> "close", called |-> FALSE, at |-> client]
    /\ backoff' = IF orphan \/ st # "CONNECTING" THEN Broken
                  ELSE Failed(backoff, client')
    /\ UNCHANGED <<disconnected, hubVars, hookVars, viewVars,
                   workerVars, routeVars, wire>>

\* the error event of a socket that has not closed yet
SocketError ==
    /\ LiveCount(client) > 0
    /\ client' = WsOnError(client)
    /\ clast' = [op |-> "error", called |-> FALSE, at |-> client]
    /\ UNCHANGED <<backoff, disconnected, hubVars, hookVars, viewVars,
                   workerVars, routeVars, wire>>

\* the reconnect timeout fires
TimerFire ==
    LET c == [client EXCEPT !.reconnectAttempts = @ + 1,
                            !.reconnectTimer.pending = FALSE]
    IN  /\ client.reconnectTimer.pending
        /\ (~AlreadyConnected(c) /\ c.url = "valid") => LiveCount(c) < MaxLive
        /\ client' = TimerCallback(client)
        /\ clast' = [op |-> "timer", called |-> TRUE, at |-> c]
        /\ backoff' = IF client.url = "valid" THEN backoff
                      ELSE Failed(backoff, client')
        /\ UNCHANGED <<disconnected, hubVars, hookVars, viewVars,
                   workerVars, routeVars, wire>>

\* the application calls send(message); throws: ws.send fails
CallSend(throws) ==
    LET r == Send(client, throws)
        id == wire.calls + 1
    IN  /\ wire.calls < MaxSends
        /\ throws => client.ws = "OPEN"
        /\ wire' = [calls |-> id,
                    sent |-> IF r.transmitted THEN wire.sent \cup {id}
                             ELSE wire.sent,
                    refused |-> IF client.ws # "OPEN"
                                THEN wire.refused \cup {id}
                                ELSE wire.refused,
                    ret |-> r.ret]
        /\ clast' = [op |-> "send", called |-> FALSE, at |-> client]
        /\ UNCHANGED <<client, backoff, disconnected, hubVars, hookVars,
                       viewVars, workerVars, routeVars>>

ClientNext ==
    \/ CallConnect
    \/ \E throws \in BOOLEAN : CallSend(throws)
    \/ CallDisconnect
    \/ \E orphan \in BOOLEAN : SocketOpen(orphan)
    \/ \E orphan \in BOOLEAN, st \in LiveStates : SocketClose(orphan, st)
    \/ SocketError
    \/ TimerFire

SpecClient == InitClient /\ [][ClientNext]_vars

\* ------------------------------------------------- useWebSocket: actions
\* React runs the effect: on mount, and again (after the previous cleanup)
\* whenever `connecting` differs from its value in the render whose effect
\* ran last, because connect then has a new identity
HookEffect ==
    LET cap == hook.connecting
        h == IF hook.mounted THEN HookCleanup(hook) ELSE hook
    IN  /\ ~hook.mounted \/ hook.connecting # hook.effConnecting
        /\ HookConnects(h, cap) =>
               /\ h.attempts < MaxHookAttempts
               /\ h.url = "valid" => HookLiveCount(h) < MaxLive
        /\ hook' = [HookConnect(h, cap) EXCEPT !.mounted = TRUE,
                                               !.effConnecting = cap]
        /\ hlast' = [op |-> "effect", at |-> hook]
        /\ hbackoff' = IF hook.mounted \/ ~hbackoff.pure THEN Broken
                       ELSE IF hook.url = "valid"
                            THEN [hbackoff EXCEPT !.started = TRUE]
                            ELSE HookFailed([hbackoff EXCEPT !.started = TRUE],
                                            hook')
        /\ UNCHANGED <<hubVars, clientVars, viewVars, workerVars, routeVars>>

\* the open event of a connecting socket: the one wsRef names, or an orphan
HookSocketOpen(orphan) ==
    /\ IF orphan
       THEN /\ hook.orphans["CONNECTING"] > 0
            /\ hook' = HookOnOpen(
                   [hook EXCEPT !.orphans["CONNECTING"] = @ - 1,
                                !.orphans["OPEN"] = @ + 1])
       ELSE /\ hook.ws = "CONNECTING"
            /\ hook' = HookOnOpen([hook EXCEPT !.ws = "OPEN"])
    /\ hlast' = [op |-> "open", at |-> hook]
    /\ hbackoff' = Broken
    /\ UNCHANGED <<hubVars, clientVars, viewVars, workerVars, routeVars>>

\* the close event of a socket: the one wsRef names, or an orphan in state st
HookSocketClose(orphan, st) ==
    /\ IF orphan
       THEN /\ hook.orphans[st] > 0
            /\ hook' = HookOnClose([hook EXCEPT !.orphans[st] = @ - 1])
       ELSE /\ hook.ws = st
            /\ hook' = HookOnClose([hook EXCEPT !.ws = "CLOSED"])
    /\ hlast' = [op |-> IF st = "OPEN" THEN "drop" ELSE "close", at |-> hook]
    /\ hbackoff' = IF orphan \/ st # "CONNECTING" THEN Broken
                   ELSE HookFailed(hbackoff, hook')
    /\ UNCHANGED <<hubVars, clientVars, viewVars, workerVars, routeVars>>

\* the error event of a socket that has not closed yet
HookSocketError ==
    /\ HookLiveCount(hook) > 0
    /\ hook' = HookOnError(hook)
    /\ hlast' = [op |-> "error", at |-> hook]
    /\ hbackoff' = hbackoff
    /\ UNCHANGED <<hubVars, clientVars, viewVars, workerVars, routeVars>>

\* the reconnect timeout fires: it calls the connect of a render in which
\* `connecting` was false (only such a connect creates sockets and timers)
HookTimerFire ==
    LET h == [hook EXCEPT !.timer.pending = FALSE]
    IN  /\ hook.timer.pending
        /\ HookConnects(h, FALSE) =>
               /\ h.attempts < MaxHookAttempts
               /\ h.url = "valid" => HookLiveCount(h) < MaxLive
        /\ hook' = HookConnect(h, FALSE)
        /\ hlast' = [op |-> "timer", at |-> hook]
        /\ hbackoff' = IF hook.url = "valid" THEN hbackoff
                       ELSE HookFailed(hbackoff, hook')
        /\ UNCHANGED <<hubVars, clientVars, viewVars, workerVars, routeVars>>

HookNext ==
    \/ HookEffect
    \/ \E orphan \in BOOLEAN : HookSocketOpen(orphan)
    \/ \E orphan \in BOOLEAN, st \in LiveStates : HookSocketClose(orphan, st)
    \/ HookSocketError
    \/ HookTimerFire

SpecHook == InitHook /\ [][HookNext]_vars

\* --------------------------------------- useWebSocket: onmessage, actions
\* a socket of the hook receives an envelope
HookMessage(e) ==
    /\ hview.handled < env.envelopes
    /\ e \in env.sent
    /\ hview' = HookOnMessage(hview, e)
    /\ hvlast' = e
    /\ UNCHANGED <<hubVars, clientVars, hookVars, workerVars, routeVars>>

ViewNext == \E e \in env.sent : HookMessage(e)

\* clearMessages of the hook: setMessages([])
HookClearMessages ==
    /\ hview.messages # <<>>
    /\ hview' = [hview EXCEPT !.messages = <<>>]
    /\ hvlast' = [NoEnvelope EXCEPT !.type = "clear"]
    /\ UNCHANGED <<hubVars, clientVars, hookVars, workerVars, routeVars>>

NextView == ViewNext \/ HookClearMessages

SpecView == InitView /\ [][NextView]_vars

\* the hub and a hook, each receiving what its peers send it
NextUnhandled == Next \/ ViewNext

SpecUnhandled == InitUnhandled /\ [][NextUnhandled]_vars

\* ------------------------------------------------ service worker: actions
\* a tab posts { type: 'online' }
WorkerOnline ==
    /\ ~SwBusy(sw) => SwLiveCount(sw) < MaxLive
    /\ sw' = SwConnect(sw)
    /\ swlast' = [op |-> "online", at |-> sw]
    /\ UNCHANGED <<hubVars, clientVars, hookVars, viewVars, routeVars>>

\* a tab posts { type: 'offline' }
WorkerOffline ==
    /\ sw' = SwOffline(sw)
    /\ swlast' = [op |-> "offline", at |-> sw]
    /\ UNCHANGED <<hubVars, clientVars, hookVars, viewVars, routeVars>>

\* a tab posts { type: 'message', content }; throws: websocket.send fails
WorkerMessage(throws) ==
    LET r == SwSend(sw, throws)
    IN  /\ sw.posted < MaxSends
        /\ throws => (sw.connected /\ sw.websocket = "OPEN")
        /\ sw' = [sw EXCEPT !.posted = @ + 1,
                            !.sent = IF r.transmitted THEN @ + 1 ELSE @]
        /\ swlast' = [op |-> "message", at |-> sw]
        /\ UNCHANGED <<hubVars, clientVars, hookVars, viewVars, routeVars>>

\* the open event of a connecting socket: the one `websocket` names, or an
\* orphan
WorkerSocketOpen(orphan) ==
    /\ IF orphan
       THEN /\ sw.orphans["CONNECTING"] > 0
            /\ sw' = SwOnOpen([sw EXCEPT !.orphans["CONNECTING"] = @ - 1,
                                         !.orphans["OPEN"] = @ + 1])
       ELSE /\ sw.websocket = "CONNECTING"
            /\ sw' = SwOnOpen([sw EXCEPT !.websocket = "OPEN"])
    /\ swlast' = [op |-> "open", at |-> sw]
    /\ UNCHANGED <<hubVars, clientVars, hookVars, viewVars, routeVars>>

\* the close event of a socket: the one `websocket` names, or an orphan, in
\* state st (CONNECTING: the attempt failed)
WorkerSocketClose(orphan, st) ==
    /\ IF orphan
       THEN /\ sw.orphans[st] > 0
            /\ sw' = SwOnClose([sw EXCEPT !.orphans[st] = @ - 1])
       ELSE /\ sw.websocket = st
            /\ sw' = SwOnClose([sw EXCEPT !.websocket = "CLOSED"])
    /\ swlast' = [op |-> "close", at |-> sw]
    /\ UNCHANGED <<hubVars, clientVars, hookVars, viewVars, routeVars>>

\* the error event of a socket that has not closed yet: onerror only reports
WorkerSocketError ==
    /\ SwLiveCount(sw) > 0
    /\ sw' = sw
    /\ swlast' = [op |-> "error", at |-> sw]
    /\ UNCHANGED <<hubVars, clientVars, hookVars, viewVars, routeVars>>

\* the reconnect timeout fires: setTimeout(connect, 3000)
WorkerTimerFire ==
    LET w == [sw EXCEPT !.reconnectTimer = FALSE]
    IN  /\ sw.reconnectTimer
        /\ ~SwBusy(w) => SwLiveCount(w) < MaxLive
        /\ sw' = SwConnect(w)
        /\ swlast' = [op |-> "timer", at |-> sw]
        /\ UNCHANGED <<hubVars, clientVars, hookVars, viewVars, routeVars>>

WorkerNext ==
    \/ WorkerOnline
    \/ WorkerOffline
    \/ \E throws \in BOOLEAN : WorkerMessage(throws)
    \/ \E orphan \in BOOLEAN : WorkerSocketOpen(orphan)
    \/ \E orphan \in BOOLEAN, st \in LiveStates : WorkerSocketClose(orphan, st)
    \/ WorkerSocketError
    \/ WorkerTimerFire

SpecWorker == Init /\ [][WorkerNext]_vars

\* ------------------------------------------------------------------ claims
\* C1: the history never holds more than MAX_MESSAGES entries, and it holds
\* exactly the most recent min(n, MAX_MESSAGES) of the n accepted chat
\* messages, in the order they were received (the oldest is evicted first).
C1_HistoryIsRecentWindow ==
    LET n == Len(accepted)
        k == IF n < MAX_MESSAGES THEN n ELSE MAX_MESSAGES
    IN  /\ Len(messages) <= MAX_MESSAGES
        /\ Len(messages) = k
        /\ \A i \in 1..k : messages[i] = accepted[n - k + i]

\* an append at capacity has evicted an entry that differs from the newest
C1_Witness ==
    /\ Len(accepted) > MAX_MESSAGES
    /\ Len(messages) = MAX_MESSAGES
    /\ last.op = "message"
    /\ accepted[1] # accepted[Len(accepted)]

\* `last` describes the handler that has just returned: no socket has changed
\* since, so sock[id].readyState is what that handler read.
SentTo(sends) == {sends[i].to : i \in 1..Len(sends)}

FailedTo(sends) == {sends[i].to : i \in {j \in 1..Len(sends) : ~sends[j].ok}}

DeliveredTo(sends) == {sends[i].to : i \in {j \in 1..Len(sends) : sends[j].ok}}

OpenIn(reg) == {id \in Range(reg) : sock[id].readyState = OPEN}

\* C2 as stated: broadcast never sends to the excluded identity and delivers
\* the envelope to every other identity registered when the call starts.
C2_DeliversToEveryRegistered ==
    last.broadcast =>
        /\ last.exclude \notin SentTo(last.sends)
        /\ Range(last.reg) \ {last.exclude} \subseteq DeliveredTo(last.sends)

\* C2 amended: broadcast never sends to the excluded identity; it calls
\* ws.send with the envelope exactly once for every other identity that is
\* registered when the call starts and whose socket is OPEN, and for no other;
\* the envelope reaches each of them unless that ws.send throws.
C2_SendsToEveryOpenOther ==
    last.broadcast =>
        /\ last.exclude \notin SentTo(last.sends)
        /\ SentTo(last.sends) = OpenIn(last.reg) \ {last.exclude}
        /\ \A i, j \in 1..Len(last.sends) :
                last.sends[i].to = last.sends[j].to => i = j
        /\ \A i \in 1..Len(last.sends) : last.sends[i].data = last.data

\* a broadcast whose sender is registered, that skips a registered entry
\* whose socket is not OPEN and delivers to another one
C2_Witness ==
    /\ last.broadcast
    /\ last.exclude \in Range(last.reg)
    /\ \E id \in Range(last.reg) \ {last.exclude} :
            sock[id].readyState # OPEN
    /\ DeliveredTo(last.sends) # {}

\* C3 as stated: when a send of a broadcast fails, the failing entry is
\* removed, the caller sees no exception, every remaining non-excluded entry
\* is still sent to, and no other entry is removed.
C3_FailureLeavesTheRestServed ==
    (last.broadcast /\ FailedTo(last.sends) # {}) =>
        /\ ~last.thrown
        /\ last.post = SelectSeq(last.reg,
                           LAMBDA id : id \notin FailedTo(last.sends))
        /\ Range(last.reg) \ {last.exclude} \subseteq SentTo(last.sends)

\* C3 amended: as stated, for every remaining non-excluded entry whose socket
\* is OPEN (an entry whose socket is not OPEN is skipped, and stays registered).
C3_FailureLeavesTheOpenRestServed ==
    (last.broadcast /\ FailedTo(last.sends) # {}) =>
        /\ ~last.thrown
        /\ last.post = SelectSeq(last.reg,
                           LAMBDA id : id \notin FailedTo(last.sends))
        /\ OpenIn(last.reg) \ {last.exclude} \subseteq SentTo(last.sends)

\* the first send of a broadcast throws and a later entry still gets the
\* envelope
C3_Witness ==
    /\ last.broadcast
    /\ Len(last.sends) >= 2
    /\ ~last.sends[1].ok
    /\ last.sends[Len(last.sends)].ok
    /\ last.sends[1].to \notin Range(connections)
    /\ last.sends[Len(last.sends)].to \in Range(connections)

\* C4: every userCount envelope sent after a connect or a disconnect carries
\* the registry size at the moment it is sent to its recipient.
C4_CountIsRegistrySizeWhenSent ==
    last.op \in {"accept", "close", "error"} =>
        \A i \in 1..Len(last.sends) :
            last.sends[i].data.type = "userCount" =>
                last.sends[i].data.count = last.sends[i].size

C6_AcceptWelcomesAndAnnounces ==
    last.op = "accept" =>
        /\ last.id \notin Range(last.pre)
        /\ last.reg = Append(last.pre, last.id)
        /\ Len(last.direct) = 1
        /\ last.direct[1].to = last.id
        /\ last.direct[1].data.type = "connected"
        /\ last.direct[1].data.clientId = last.id
        /\ last.direct[1].data.userCount = Len(last.pre) + 1
        /\ last.direct[1].data.userCount >= 1
        /\ \A id \in Range(last.pre) :
                \E i \in 1..Len(last.sends) :
                    /\ last.sends[i].to = id
                    /\ last.sends[i].data =
                           [type |-> "userCount", count |-> Len(last.pre) + 1]

\* C7: on an empty hub, with every socket open and every send succeeding, A
\* connects and receives connected with userCount 1 and no recent messages; B
\* connects and A receives userCount 2; B sends "hello" and A, not B, receives
\* it with B's identity and a timestamp not earlier than B's connect time; B
\* disconnects and A receives userCount 1.
C7_TwoClientScenario ==
    LET welcomeA == [type |-> "connected", clientId |-> 1, userCount |-> 1,
                     recentMessages |-> <<>>]
        a == scenario.a
        b == scenario.b
    IN  /\ scenario.stage \in {"A", "AB", "ABm", "ABmx"} =>
              /\ Len(a) >= 1
              /\ a[1] = welcomeA
        /\ scenario.stage = "A" => Len(a) = 1 /\ b = <<>>
        /\ scenario.stage \in {"AB", "ABm", "ABmx"} =>
              /\ Len(a) >= 2
              /\ a[2] = [type |-> "userCount", count |-> 2]
              /\ Len(b) = 1
              /\ b[1].type = "connected"
              /\ b[1].userCount = 2
        /\ scenario.stage = "AB" => Len(a) = 2
        /\ scenario.stage \in {"ABm", "ABmx"} =>
              /\ Len(a) >= 3
              /\ a[3].type = "message"
              /\ a[3].content = "hello"
              /\ a[3].clientId = b[1].clientId
              /\ a[3].timestamp >= scenario.bAt
        /\ scenario.stage = "ABm" => Len(a) = 3
        /\ scenario.stage = "ABmx" =>
              /\ Len(a) = 4
              /\ a[4] = [type |-> "userCount", count |-> 1]

\* the scenario has run to its end, the clock having advanced after B connected
C7_Witness ==
    /\ scenario.stage = "ABmx"
    /\ scenario.a[3].timestamp > scenario.bAt

\* C8: when every connection attempt fails (one connect() after construction,
\* then only failed attempts and timer firings), the reconnect delays are 3000,
\* 6000, 12000, 24000, 48000 ms in that order, and after the 6th consecutive
\* failure no timer is pending and no further attempt is made.
C8_BackoffSequence ==
    LET expected == <<3000, 6000, 12000, 24000, 48000>>
        n == Len(backoff.delays)
    IN  backoff.pure =>
            /\ backoff.failures <= 6
            /\ n = (IF backoff.failures < 5 THEN backoff.failures ELSE 5)
            /\ \A i \in 1..n : backoff.delays[i] = expected[i]
            /\ backoff.failures = 6 =>
                    /\ ~client.reconnectTimer.pending
                    /\ NumConnecting(client) = 0

\* six attempts in a row have failed
C8_Witness ==
    /\ backoff.pure
    /\ backoff.failures = 6
    /\ backoff.delays = <<3000, 6000, 12000, 24000, 48000>>
    /\ clast.op = "close"

\* C9: after disconnect() has returned no reconnect timer is pending and no
\* connection attempt is made, whatever socket events follow, until connect()
\* is called again.
C9_NoReconnectAfterDisconnect ==
    disconnected =>
        /\ ~client.reconnectTimer.pending
        /\ client.ws = "null"

\* C10: connect() called while the controller's socket is CONNECTING or OPEN is
\* a no-op, so at most one connection attempt is outstanding.
C10_ConnectWhileLiveIsNoOp ==
    /\ (clast.called /\ clast.at.ws \in {"CONNECTING", "OPEN"}) =>
            client = clast.at
    /\ NumConnecting(client) <= 1

\* C11: in every reachable state of a WebSocketClient there is at most one
\* socket that is connecting or open and at most one pending reconnect timer.
C11_OneSocketOneTimer ==
    /\ NumConnectingOrOpen(client) <= 1
    /\ PendingTimers(client) <= 1

\* C12: in both client controllers the reconnect attempt counter is 0 right
\* after every socket open event, so the backoff restarts from the base delay:
\* the retry scheduled when a socket closes while the counter is still 0 waits
\* reconnectInterval.
C12_OpenRestartsBackoff ==
    /\ clast.op = "open" => client.reconnectAttempts = 0
    /\ hlast.op = "open" => hook.attempts = 0
    /\ (clast.op = "close" /\ clast.at.reconnectAttempts = 0
            /\ client.reconnectTimer.pending) =>
           client.reconnectTimer.delay = reconnectInterval
    /\ (hlast.op \in {"close", "drop"} /\ hlast.at.attempts = 0
            /\ hook.timer.pending) =>
           hook.timer.delay = reconnectInterval

\* C13: send() called while the socket is not OPEN returns false, transmits
\* nothing and queues nothing (the client is left as it was), and the message
\* of such a call is never transmitted later, whatever reconnects follow.
C13_SendWhileNotOpenIsRefused ==
    /\ (clast.op = "send" /\ clast.at.ws # "OPEN") =>
            /\ ~wire.ret
            /\ wire.calls \in wire.refused
            /\ wire.calls \notin wire.sent
            /\ client = clast.at
    /\ wire.refused \cap wire.sent = {}

\* a call was refused; after a reconnect a later call went out
C13_Witness ==
    /\ 1 \in wire.refused
    /\ 2 \in wire.sent
    /\ clast.op = "send"
    /\ client.ws = "OPEN"
    /\ wire.ret

\* the contents that are empty once trimmed
TrimmedEmpty(content) == content \in {"", " "}

\* the handler that ran last handled a message envelope with no content, or
\* with content that is empty or only whitespace
BlankMessageHandled ==
    /\ last.op \in {"message", "drop"}
    /\ last.frame.ok
    /\ last.frame.type = "message"
    /\ ~last.frame.hasContent \/ TrimmedEmpty(last.frame.content)

\* C14: a message envelope whose content is empty or only whitespace is
\* dropped: nothing is sent for it and the history never holds such a message;
\* only messages with non-empty trimmed content are appended and relayed.
C14_BlankContentIsDropped ==
    /\ BlankMessageHandled =>
            /\ ~last.broadcast
            /\ last.sends = <<>>
            /\ last.direct = <<>>
            /\ last.post = last.pre
    /\ \A i \in 1..Len(messages) : ~TrimmedEmpty(messages[i].content)
    /\ (last.broadcast /\ last.data.type = "message") =>
            ~TrimmedEmpty(last.data.content)

\* C15: every chat message the hub stores or broadcasts carries the identity
\* the hub assigned to its sender at accept and the hub's clock reading at
\* receipt; the clientId and timestamp a client puts in its frame never appear
\* in the history or in a relayed envelope.
C15_IdentityAndTimeAreTheHubs ==
    /\ \A i \in 1..Len(messages) :
            /\ messages[i].clientId \in DOMAIN sock
            /\ messages[i].timestamp \in 0..clock
    /\ last.op = "message" =>
            /\ messages[Len(messages)].clientId = last.id
            /\ messages[Len(messages)].timestamp = clock
            /\ last.data.clientId = last.id
            /\ last.data.timestamp = clock
            /\ \A i \in 1..Len(last.sends) :
                    /\ last.sends[i].data.clientId = last.id
                    /\ last.sends[i].data.timestamp = clock

\* C16: an inbound frame that cannot be parsed is discarded: its handler leaves
\* the history, the registry and every socket as they were, sends nothing and
\* ends without an exception, and the hub keeps running, so the connection
\* stays registered and its later frames are handled as before.
C16_UnparsableIsDiscarded ==
    [][last'.op = "malformed" =>
            /\ messages' = messages
            /\ connections' = connections
            /\ sock' = sock
            /\ last'.sends = <<>>
            /\ last'.direct = <<>>
            /\ ~last'.thrown
            /\ hubUp']_vars

\* C17: a ping envelope from a connection makes the hub send exactly one pong,
\* to that connection and to nobody else, and leaves the history and the
\* registry as they were.
C17_PingGetsOnePong ==
    [][(last'.frame.ok /\ last'.frame.type = "ping") =>
            /\ Len(last'.direct) = 1
            /\ last'.direct[1].to = last'.id
            /\ last'.direct[1].data = [type |-> "pong"]
            /\ last'.sends = <<>>
            /\ ~last'.broadcast
            /\ messages' = messages
            /\ connections' = connections]_vars

\* a ping was answered while other connections are registered and the
\* history is not empty
C17_Witness ==
    /\ last.op = "ping"
    /\ last.frame.type = "ping"
    /\ last.direct[1].ok
    /\ Len(connections) >= 2
    /\ messages # <<>>

\* C18: removing an identity that is not in the registry is a no-op that
\* raises no error: when the close or error handler of a connection that was
\* already removed (by a failed send, or by its error handler) runs, the
\* registry after its delete is the registry before it and the handler ends
\* normally.
C18_SecondRemovalIsNoOp ==
    (last.op \in {"close", "error"} /\ last.id \notin Range(last.pre)) =>
        /\ last.reg = last.pre
        /\ ~last.thrown
        /\ last.broadcast
        /\ Range(last.post) \subseteq Range(last.pre)

\* the close handler of a connection that had already been removed has run
\* while other connections are registered
C18_Witness ==
    /\ last.op = "close"
    /\ last.id \notin Range(last.pre)
    /\ Len(last.pre) >= 2
    /\ last.reg = connections

\* s is t with some elements left out
RECURSIVE IsSubseq(_, _)
IsSubseq(s, t) ==
    IF s = <<>> THEN TRUE
    ELSE IF t = <<>> THEN FALSE
    ELSE IF Head(s) = Head(t) THEN IsSubseq(Tail(s), Tail(t))
    ELSE IsSubseq(s, Tail(t))

\* C19: chat messages are relayed in receipt order: for every connection, the
\* sequence of message envelopes the hub has sent to it is a subsequence of the
\* order in which the hub appended those messages to the history (which is the
\* history itself while nothing has been evicted).
C19_RelayedInReceiptOrder ==
    \A id \in DOMAIN relayed :
        /\ IsSubseq(relayed[id], accepted)
        /\ Len(accepted) <= MAX_MESSAGES => IsSubseq(relayed[id], messages)

\* a connection has been sent two chat messages received at different times
C19_Witness ==
    \E id \in DOMAIN relayed :
        /\ Len(relayed[id]) = 2
        /\ relayed[id][1].timestamp < relayed[id][2].timestamp
        /\ Len(messages) = 2

\* C20: whenever a broadcast changes the registry's membership (an entry is
\* evicted because the send to it failed), the hub afterwards sends a userCount
\* envelope with the new registry size to all remaining entries: the handler
\* that ran the broadcast has, after its last failed send, sent every entry
\* that remains registered and open a userCount carrying the registry size it
\* leaves behind.
C20_EvictionAnnouncesNewSize ==
    LET failed == {i \in 1..Len(last.sends) : ~last.sends[i].ok}
    IN  (last.broadcast /\ failed # {}) =>
            \A id \in OpenIn(last.post) :
                \E i \in 1..Len(last.sends) :
                    /\ \A j \in failed : j < i
                    /\ last.sends[i].to = id
                    /\ last.sends[i].ok
                    /\ last.sends[i].data =
                           [type |-> "userCount", count |-> Len(last.post)]

\* C21 as stated: presence does not drift.  Between handlers, the count each
\* registered open connection was sent last (in its connected envelope or in a
\* userCount envelope), if it was sent one, equals the size of the registry.
C21_PresenceDoesNotDrift ==
    (env.record /\ hubUp) =>
        \A id \in Range(connections) :
            (sock[id].readyState = OPEN /\ told[id] # 0)
                => told[id] = Len(connections)

\* C22: an identity that left the registry is never registered again, and
\* every accepted connection is registered under an identity that no earlier
\* connection had: whatever enters the registry in a step is the identity of
\* the connection accepted in that step, and no socket accepted before has it.
C22_IdentityNeverReused ==
    [][/\ \A id \in Range(connections') \ Range(connections) :
              /\ id \notin DOMAIN sock
              /\ last'.op = "accept" /\ last'.id = id
       /\ last'.op = "accept" =>
              /\ last'.id \notin DOMAIN sock
              /\ last'.id \notin Range(connections)
              /\ last'.id \in Range(last'.reg)]_vars

\* a connection is accepted after an earlier one has closed and left the
\* registry (a client that reconnects)
C22_Witness ==
    /\ last.op = "accept"
    /\ last.id \in Range(connections)
    /\ \E id \in DOMAIN sock :
           /\ id < last.id
           /\ sock[id].readyState = CLOSED
           /\ id \notin Range(connections)

\* C23 as stated: the SIGINT handler closes every connection registered when
\* it runs and empties the registry, the process exits only with the registry
\* empty and those connections closed, and after a SIGINT the process does
\* exit.
C23_InterruptClosesAllAndExits ==
    /\ [][last'.op = "sigint" =>
              /\ \A id \in Range(connections) : sock'[id].readyState # OPEN
              /\ connections' = <<>>]_vars
    /\ [][last'.op = "exit" =>
              /\ connections = <<>>
              /\ \A id \in DOMAIN sock : sock[id].readyState = CLOSED]_vars
    /\ (stopping ~> ~hubUp)

\* C24 as stated: in the hook, when every connection attempt fails (the mount,
\* then only failed attempts and timer firings), the reconnect delays are
\* 3000, 6000, 12000, 24000, 48000 ms in that order, and after the 6th
\* consecutive failure no timer is pending and no further attempt is made.
C24_HookBackoffSequence ==
    LET expected == <<3000, 6000, 12000, 24000, 48000>>
        n == Len(hbackoff.delays)
    IN  hbackoff.pure =>
            /\ hbackoff.failures <= 6
            /\ n = (IF hbackoff.failures < 5 THEN hbackoff.failures ELSE 5)
            /\ \A i \in 1..n : hbackoff.delays[i] = expected[i]
            /\ hbackoff.failures = 6 =>
                    /\ ~hook.timer.pending
                    /\ hook.ws # "CONNECTING"

\* C25 as stated: every reconnect delay the hook schedules is
\* reconnectInterval * 2^(attempt-1) for an attempt number of at least 1, so
\* none is shorter than reconnectInterval, and the retry scheduled when an
\* established connection drops waits reconnectInterval.
C25_HookDelayIsAtLeastBase ==
    hook.timer.pending =>
        /\ \E attempt \in 1..MaxHookAttempts :
               hook.timer.delay = reconnectInterval * 2 ^ (attempt - 1)
        /\ hook.timer.delay >= reconnectInterval
        /\ (hlast.op = "drop" /\ hlast.at.ws = "OPEN") =>
               hook.timer.delay = reconnectInterval

\* C26 as stated: the service worker reconnects automatically.  It is never
\* left without a socket and without a pending reconnect timer, and when the
\* timer fires after a socket has closed, whether that socket had opened or
\* not, a connection attempt is made unless a socket is already connecting or
\* open.
C26_WorkerReconnects ==
    /\ SwLiveCount(sw) > 0 \/ sw.reconnectTimer
    /\ swlast.op = "timer" => SwNumConnectingOrOpen(sw) > 0

\* C27: the service worker never has more than one WebSocket that is
\* connecting or open, whatever the order of 'online' and 'offline' messages,
\* timer firings and socket events.
C27_AtMostOneWorkerSocket == SwNumConnectingOrOpen(sw) <= 1

\* an 'online' message arrives while the worker's socket is connecting, after
\* an earlier socket had opened, carried a message, closed and been replaced
C27_Witness ==
    /\ swlast.op = "online"
    /\ swlast.at.websocket = "CONNECTING"
    /\ swlast.at.sent > 0
    /\ sw.websocket = "CONNECTING"
    /\ SwNumConnectingOrOpen(sw) = 1

\* C28: an envelope of a type the receiver has no case for is ignored without
\* error.  At the hub a parsable frame whose type is neither message nor ping
\* gets no reply and no broadcast, throws nothing and leaves history, registry
\* and sockets as they were; in the hook a parsable envelope whose type is not
\* connected, userCount or message leaves userCount, messages and the
\* connection state as they were.
C28_UnhandledTypeIsIgnored ==
    [][/\ (last'.frame.ok /\ last'.frame.type \notin {"message", "ping"}) =>
              /\ last'.direct = <<>>
              /\ ~last'.broadcast
              /\ last'.sends = <<>>
              /\ ~last'.thrown
              /\ messages' = messages
              /\ connections' = connections
              /\ sock' = sock
              /\ hubUp' = hubUp
       /\ (/\ hview'.handled = hview.handled + 1
           /\ hvlast'.ok
           /\ hvlast'.type \notin {"connected", "userCount", "message"}) =>
              /\ hview'.userCount = hview.userCount
              /\ hview'.messages = hview.messages
              /\ hook' = hook]_vars

\* the hub, with two connections and a message in its history, has dropped a
\* status frame, and the hook, showing a count and a message, has been sent a
\* status envelope that carries a count, a content and recentMessages
C28_Witness ==
    /\ last.op = "drop"
    /\ last.frame.type = "status"
    /\ Len(connections) = 2
    /\ messages # <<>>
    /\ hvlast.type = "status"
    /\ hvlast.content = "hello"
    /\ hview.handled = 2
    /\ hview.messages # <<>>

\* C29: the recentMessages of a connected envelope are the last min(10, n)
\* entries of the n-entry history at accept time, oldest of them first.
C29_RecentAreTheLastTen ==
    last.op = "accept" =>
        LET recent == last.direct[1].data.recentMessages
            n == Len(messages)
            k == IF n < 10 THEN n ELSE 10
        IN  /\ last.direct[1].data.type = "connected"
            /\ Len(recent) = k
            /\ \A i \in 1..k : recent[i] = messages[n - k + i]

\* a connection is accepted when the history holds more than ten entries, and
\* the ten entries it is sent span two clock readings and are not the ten
\* oldest
C29_Witness ==
    /\ last.op = "accept"
    /\ Len(messages) > 10
    /\ Len(last.direct[1].data.recentMessages) = 10
    /\ \E i \in 1..10 : last.direct[1].data.recentMessages[i] # messages[i]
    /\ last.direct[1].data.recentMessages[1].timestamp
           < last.direct[1].data.recentMessages[10].timestamp

\* C30 as stated: once a connection has left the registry (by close, error or
\* eviction) no frame from it is appended to the history or broadcast: every
\* chat message the hub accepts comes from a connection that is registered
\* when its frame is handled.
C30_RemovedConnectionIsMute ==
    last.op = "message" => last.id \in Range(last.pre)

\* C31 as stated: the registry holds no dead entries.  While the hub runs, no
\* identity in the registry belongs to a socket that has closed (its close
\* event has been processed), also for a connection whose welcome send
\* failed, so the registry is never larger than the number of sockets that
\* have not closed.
C31_NoDeadEntries ==
    hubUp =>
        /\ \A id \in Range(connections) : sock[id].readyState # CLOSED
        /\ Len(connections)
               <= Cardinality({id \in DOMAIN sock :
                                  sock[id].readyState # CLOSED})

\* C32: the first envelope the hub sends to a connection is its connected
\* welcome.  For every accepted connection the first ws.send made for it
\* carried a connected envelope, and a connection that is not accepted yet
\* has been sent nothing.
C32_WelcomeComesFirst ==
    \A id \in DOMAIN first :
        /\ id \in DOMAIN sock => first[id] = "connected"
        /\ id \notin DOMAIN sock => first[id] = "none"

\* both connections were sent their welcome first; the second has since been
\* sent a chat message of the first and the userCount of its leave
C32_Witness ==
    /\ first = <<"connected", "connected">>
    /\ Len(relayed[2]) > 0
    /\ Len(accepted) = 2
    /\ last.op = "close"
    /\ last.id = 1
    /\ 2 \in DeliveredTo(last.sends)

\* C33 as stated: for every accepted chat message the envelope handed to
\* broadcast is the record appended to the history: the frame's content, the
\* sender's hub-assigned identity and the hub's clock reading.
C33_BroadcastIsTheStoredRecord ==
    last.op = "message" =>
        /\ messages # <<>>
        /\ last.data = messages[Len(messages)]
        /\ last.data.content = last.frame.content
        /\ last.data.clientId = last.id
        /\ last.data.timestamp = clock
        /\ \A i \in 1..Len(last.sends) :
               last.sends[i].data = messages[Len(messages)]

\* C34 as stated: the hook's messages list is ordered newest-first by hub
\* timestamp: no entry is older than an entry that follows it.
C34_ListIsNewestFirst ==
    \A i \in 1..Len(hview.messages) : \A j \in i..Len(hview.messages) :
        hview.messages[i].timestamp >= hview.messages[j].timestamp

\* C35 as stated: the hook's messages list never holds more than 100
\* entries, and when a chat message arrives at a list of 100 the entry that
\* goes is the oldest one: none of the entries that stay is older than it.
C35_ListIsBoundedAndDropsOldest ==
    [][/\ Len(hview'.messages) <= 100
       /\ (/\ Len(hview.messages) = 100
           /\ hview'.handled = hview.handled + 1
           /\ hvlast'.type = "message") =>
              /\ Len(hview'.messages) = 100
              /\ \A i \in 1..99 : hview'.messages[i + 1] = hview.messages[i]
              /\ \A i \in 1..99 :
                     hview.messages[100].timestamp
                         <= hview.messages[i].timestamp]_vars

\* C36 as stated: a disconnect causes exactly one userCount broadcast, also
\* when the transport reports an error and then a close for the connection:
\* the close handler sends the remaining connections nothing if the error
\* handler of the same connection has already announced the leave.
C36_OneBroadcastPerDisconnect ==
    [][(last'.op = "close" /\ SentTo(last'.sends) # {}) =>
           ~sock[last'.id].errored]_vars
\* C37: any two connections that were both sent the same two chat messages
\* were sent them in the same relative order, whoever the senders were; each
\* connection is sent messages in the order the hub accepted them
InOrder(received, x, y) ==
    \E i, j \in DOMAIN received :
        i < j /\ received[i] = x /\ received[j] = y

C38_AttemptsWithinLimit ==
    /\ client.reconnectAttempts \in 0..maxReconnectAttempts
    /\ clast.at.reconnectAttempts \in 0..maxReconnectAttempts
    /\ client.reconnectTimer.pending =>
           client.reconnectAttempts < maxReconnectAttempts

C38_Witness ==
    /\ clast.op = "timer"
    /\ client.reconnectAttempts = maxReconnectAttempts
    /\ ~client.reconnectTimer.pending

\* C39: the API route calls new WebSocketServer at most once however many
\* requests it handles; a GET is answered 200 with the registry's size at
\* that moment; any other method is answered 405, with no connections
\* figure, and leaves the server, the registry and the history as they were
C39_ServerCreatedOnceAndNonGetRefused ==
    /\ [](route.created <= 1 /\ (route.created = 1 <=> route.wss # "null"))
    /\ [][route'.requests # route.requests =>
             IF rlast'.method = "GET"
             THEN /\ rlast'.status = 200
                  /\ rlast'.connections = Len(connections)
                  /\ rlast'.creates <=> route.created = 0
                  /\ hubVars' = hubVars
             ELSE /\ rlast'.status = 405
                  /\ rlast'.connections = NoCount
                  /\ route'.wss = route.wss
                  /\ route'.created = route.created
                  /\ hubVars' = hubVars]_vars

C39_Witness ==
    /\ route.requests = MaxRequests
    /\ route.created = 1
    /\ rlast.method = "GET"
    /\ ~rlast.creates
    /\ rlast.connections = 2
    /\ Len(connections) = 2

====
